---- MODULE Spec2Model ----
(***************************************************************************)
(* Archived SwissTable hash map (rkyv): construction of the archived       *)
(* layout from an iterator of pairs, and the lookup, in-place value        *)
(* mutation and iteration operations over the archived layout.             *)
(*                                                                         *)
(* The map facade (collections/swiss_table/map.rs) is translated from its  *)
(* source.  The table engine it delegates to (ArchivedHashTable, RawIter,   *)
(* hash_value) follows the design document: bucket = hash mod capacity,    *)
(* open addressing with one fixed probe sequence, control tags             *)
(* occupied/empty, capacity = least c with c * num >= len * den.           *)
(***************************************************************************)
EXTENDS Integers, Sequences, FiniteSets, TLC

VARIABLES
    pc,          \* "start" -> "serialized" -> "built"
    input,       \* the iterator handed to serialize_from_iter: Seq of (key, value)
    load_factor, \* <<num, den>>
    resolver,    \* HashMapResolver: result of serialize_from_iter
    map,         \* the ArchivedHashMap written at `out` by resolve_from_len
    cursor,      \* the live iterator over the map, if any
    ret,         \* return value of the last call
    other,       \* a second archived map, the right-hand side of ==
    ser,         \* the serializer handed to serialize_from_iter: writer and faults
    GLOBAL_ARENA, \* the cache slot of the shared mode: Null or an arena
    arenas,      \* every arena ever allocated: live or freed, and its scratch
    call,        \* per thread: its with_arena call, position and locals
    clear,       \* the clear_arena call, position and local
    started,     \* how many with_arena calls have begun
    cas_order,   \* the threads in the order their compare_exchange ran
    THREAD_ARENA, \* the cell of the per-thread mode, of one thread: Null or an arena
    stack,       \* that thread's with_arena calls in progress, outermost first
    observed,    \* what the last step of that thread found and did
    result,      \* Attributes::parse: the Attributes being filled
    parse_pc,    \* "attrs" (between attributes), "nested" (inside one), "done"
    parse_ret,   \* what parse returned
    seen         \* what parse has gone through so far

mapvars == <<pc, input, load_factor, resolver, map, cursor, ret>>
arenavars == <<GLOBAL_ARENA, arenas, call, clear, started, cas_order>>
stdvars == <<THREAD_ARENA, stack, observed>>
derivevars == <<result, parse_pc, parse_ret, seen>>
vars == <<pc, input, load_factor, resolver, map, cursor, ret, other, ser,
          GLOBAL_ARENA, arenas, call, clear, started, cas_order,
          THREAD_ARENA, stack, observed, result, parse_pc, parse_ret, seen>>

----------------------------------------------------------------------------
(* Bounds of the model. *)

MaxLen == 2
MaxKey == 2
MaxVal == 2
MaxThreads == 2
MaxCalls == 3
MaxClears == 1
MaxCap == 2
MaxItems == 2

Keys == 1..MaxKey
Vals == 1..MaxVal

\* Admissible load factors (num, den): 0 < num <= den, so capacity >= length.
LoadFactors == {<<1, 1>>, <<7, 8>>, <<1, 2>>}

\* Keys looked up: the keys that may be inserted, and 0, which never is.
QueryKeys == 0..MaxKey

Pairs == [key : Keys, value : Vals]

RECURSIVE SeqsUpTo(_, _)
SeqsUpTo(S, n) ==
    IF n = 0 THEN {<<>>}
    ELSE LET shorter == SeqsUpTo(S, n - 1)
         IN  shorter \cup {Append(s, x) : s \in {t \in shorter : Len(t) = n - 1}, x \in S}

Inputs == SeqsUpTo(Pairs, MaxLen)

----------------------------------------------------------------------------
(* Option values. *)

None == [some |-> FALSE]
Some(x) == [some |-> TRUE, val |-> x]

Max(a, b) == IF a >= b THEN a ELSE b

----------------------------------------------------------------------------
(* The table engine: ArchivedHashTable<Entry<K, V>>. *)

\* hash_value(key): a deterministic hash of the key, with collisions.
hash_value(k) == (3 * k) % 6

\* Least c with c * num >= len * den; 0 for an empty table, at least 1 otherwise.
capacity_from_len(len, lf) ==
    IF len = 0 THEN 0
    ELSE Max(1, (len * lf[2] + lf[1] - 1) \div lf[1])

\* The i-th candidate bucket of the probe sequence of `hash` over `cap` slots.
probe(hash, cap, i) == (hash + i) % cap

\* Placement: the first bucket of the probe sequence that is not in `occ`.
first_empty(hash, cap, occ) ==
    LET n == CHOOSE i \in 0..(cap - 1) :
                 /\ probe(hash, cap, i) \notin occ
                 /\ \A j \in 0..(i - 1) : probe(hash, cap, j) \in occ
    IN  probe(hash, cap, n)

\* Phase 1: the plan.  Entries are placed in iterator order against the
\* occupancy planned so far.
table_serialize_from_iter(entries, hashes, lf) ==
    LET cap == capacity_from_len(Len(entries), lf)
        plan[i \in 0..Len(entries)] ==
            IF i = 0 THEN <<>>
            ELSE LET occ == {plan[i - 1][j].bucket : j \in 1..(i - 1)}
                 IN  Append(plan[i - 1],
                            [bucket |-> first_empty(hashes[i], cap, occ),
                             entry  |-> entries[i]])
    IN  [capacity |-> cap, plan |-> plan[Len(entries)]]

\* The serializer, as construction uses it.  `written` is the output so far,
\* one chunk per serialized entry; the writer accepts `room` more writes;
\* archiving the entry at index `fail_at` fails (0: none does); `attempts`
\* lists the entries whose serialization was started.
Ok(x) == [ok |-> TRUE, val |-> x]
Err(e) == [ok |-> FALSE, err |-> e]

\* The index of the first entry that fails under serializer s0, 0 if none:
\* its archiving fails, or the writer has no room left for its write.
first_failure(n, s0) ==
    LET bad == {i \in 1..n : s0.fail_at = i \/ i > s0.room}
    IN  IF bad = {} THEN 0 ELSE CHOOSE i \in bad : \A j \in bad : i <= j

\* Phase 1 against a serializer that may fail: the entries are serialized in
\* iterator order, each once; the first failure aborts the construction with
\* that error, and what was written before it stays in the writer.
table_serialize_from_iter_in(entries, hashes, lf, s0) ==
    LET n == Len(entries)
        j == first_failure(n, s0)
        done == IF j = 0 THEN n ELSE j - 1
        tried == IF j = 0 THEN n ELSE j
        s1 == [s0 EXCEPT
                  !.written = @ \o [i \in 1..done |-> entries[i]],
                  !.room = @ - done,
                  !.attempts = @ \o [i \in 1..tried |-> i]]
    IN  [ser |-> s1,
         result |-> IF j = 0 THEN Ok(table_serialize_from_iter(entries, hashes, lf))
                    ELSE IF s0.fail_at = j THEN Err([kind |-> "serialize", at |-> j])
                    ELSE Err([kind |-> "write", at |-> j])]

\* An unused slot: its bytes are never read as an Entry.
Unused == [key |-> 0, value |-> 0]

\* Phase 2: header, control tags and slots are written.
table_resolve_from_len(len, lf, res) ==
    LET cap  == res.capacity
        at(b) == {j \in 1..Len(res.plan) : res.plan[j].bucket = b}
    IN  [capacity |-> cap,
         len      |-> len,
         ctrl     |-> [b \in 0..(cap - 1) |-> at(b) # {}],
         slots    |-> [b \in 0..(cap - 1) |->
                          IF at(b) = {} THEN Unused
                          ELSE res.plan[CHOOSE j \in at(b) : TRUE].entry]]

\* The comparators a caller may supply: the default (q == k.borrow()) and an
\* alternate key type that compares equal to every stored key of the same hash.
Comparators == {"eq", "same_hash"}
Cmp(c, q, k) ==
    IF c = "eq" THEN q = k ELSE hash_value(q) = hash_value(k)

\* The closure |e| cmp(key, &e.key) and its application to an entry.
Closure(c, key) == [cmp |-> c, key |-> key]
Apply(pred, e) == Cmp(pred.cmp, pred.key, e.key)

\* get_with(hash, pred): probe from hash mod capacity; stop at the first
\* occupied slot satisfying pred (hit), at an empty slot (miss) or after
\* capacity probes (miss).
table_get_with(t, hash, pred) ==
    LET cap == t.capacity
        step[i \in 0..cap] ==
            IF i = cap THEN [found |-> FALSE, slot |-> 0, probes |-> i]
            ELSE LET b == probe(hash, cap, i)
                 IN  IF ~t.ctrl[b]
                       THEN [found |-> FALSE, slot |-> b, probes |-> i + 1]
                     ELSE IF Apply(pred, t.slots[b])
                       THEN [found |-> TRUE, slot |-> b, probes |-> i + 1]
                     ELSE step[i + 1]
    IN  step[0]

table_len(t) == t.len
table_capacity(t) == t.capacity
table_is_empty(t) == t.len = 0

----------------------------------------------------------------------------
(* The map facade: ArchivedHashMap<K, V>. *)

\* A miss, and a hit on the entry stored in bucket `slot` (the address of the
\* returned references).
Miss == [some |-> FALSE]
Hit(t, slot) ==
    [some |-> TRUE, key |-> t.slots[slot].key, value |-> t.slots[slot].value,
     slot |-> slot]

\* Mutant of get_key_value_with: the caller's comparator is not the one applied.
get_key_value_with_other_cmp(t, key, cmp) ==
    LET entry == table_get_with(t, hash_value(key), Closure("same_hash", key))
    IN  IF ~entry.found THEN Miss ELSE Hit(t, entry.slot)

get_key_value_with(t, key, cmp) ==
    LET entry == table_get_with(t, hash_value(key), Closure(cmp, key))
    IN  IF ~entry.found THEN Miss ELSE Hit(t, entry.slot)

get_key_value(t, key) == get_key_value_with(t, key, "eq")

get_with(t, key, cmp) ==
    LET kv == get_key_value_with(t, key, cmp)
    IN  IF ~kv.some THEN None ELSE Some(kv.value)

\* Mutant of get: the key of the pair is returned in place of the value.
get_returns_key(t, key) ==
    LET kv == get_key_value(t, key)
    IN  IF ~kv.some THEN None ELSE Some(kv.key)

get(t, key) ==
    LET kv == get_key_value(t, key)
    IN  IF ~kv.some THEN None ELSE Some(kv.value)

\* The mutable path: the key is returned by shared reference, the value as
\* Pin<&mut V>, modelled as the place (slot, field) a write through it lands.
\* Mutant of get_key_value_mut_with: the key is handed out for mutation.
get_key_value_mut_with_key_ref(t, key, cmp) ==
    LET entry == table_get_with(t, hash_value(key), Closure(cmp, key))
    IN  IF ~entry.found THEN Miss
        ELSE [some |-> TRUE, key |-> t.slots[entry.slot].key,
              ref |-> [slot |-> entry.slot, field |-> "key"],
              slot |-> entry.slot]

get_key_value_mut_with(t, key, cmp) ==
    LET entry == table_get_with(t, hash_value(key), Closure(cmp, key))
    IN  IF ~entry.found THEN Miss
        ELSE [some |-> TRUE, key |-> t.slots[entry.slot].key,
              ref |-> [slot |-> entry.slot, field |-> "value"],
              slot |-> entry.slot]

get_key_value_mut(t, key) == get_key_value_mut_with(t, key, "eq")

get_mut_with(t, key, cmp) ==
    LET kv == get_key_value_mut_with(t, key, cmp)
    IN  IF ~kv.some THEN None ELSE Some(kv.ref)

get_mut(t, key) ==
    LET kv == get_key_value_mut(t, key)
    IN  IF ~kv.some THEN None ELSE Some(kv.ref)

\* A read and a write of v through a Pin<&mut V> obtained from the map.
load(t, ref) == t.slots[ref.slot][ref.field]
store(t, ref, v) == [t EXCEPT !.slots[ref.slot][ref.field] = v]

contains_key(t, key) == get(t, key).some

\* Option::unwrap: the value of Some, a panic on None.
Returned_value(v) == [panic |-> FALSE, val |-> v]
Panic == [panic |-> TRUE]
unwrap(o) == IF o.some THEN Returned_value(o.val) ELSE Panic

\* Faulty variant of index: an absent key yields a default value.
index_unwrap_or_default(t, key) ==
    LET o == get(t, key)
    IN  IF o.some THEN Returned_value(o.val) ELSE Returned_value(0)

\* Index<&Q>::index.
index(t, key) == unwrap(get(t, key))

\* Faulty variant: the negation is lost.
is_empty_negated(t) == ~table_is_empty(t)

is_empty(t) == table_is_empty(t)
len(t) == table_len(t)
capacity(t) == table_capacity(t)

\* Mutant of serialize_from_iter: the denominator of the load factor is lost.
serialize_from_iter_num_twice(iter, lf) ==
    table_serialize_from_iter(
        [i \in 1..Len(iter) |-> [key |-> iter[i].key, value |-> iter[i].value]],
        [i \in 1..Len(iter) |-> hash_value(iter[i].key)],
        <<lf[1], lf[1]>>)

\* Mutant of serialize_from_iter: the numerator of the load factor is lost.
serialize_from_iter_no_num(iter, lf) ==
    table_serialize_from_iter(
        [i \in 1..Len(iter) |-> [key |-> iter[i].key, value |-> iter[i].value]],
        [i \in 1..Len(iter) |-> hash_value(iter[i].key)],
        <<1, lf[2]>>)

\* Mutant of serialize_from_iter: the values are hashed in place of the keys.
serialize_from_iter_hash_value(iter, lf) ==
    table_serialize_from_iter(
        [i \in 1..Len(iter) |-> [key |-> iter[i].key, value |-> iter[i].value]],
        [i \in 1..Len(iter) |-> hash_value(iter[i].value)],
        lf)

\* Mutant of serialize_from_iter: a pair whose key came before is dropped.
serialize_from_iter_dedup(iter, lf) ==
    LET kept[i \in 0..Len(iter)] ==
            IF i = 0 THEN <<>>
            ELSE IF \E j \in 1..(i - 1) : iter[j].key = iter[i].key
              THEN kept[i - 1]
            ELSE Append(kept[i - 1], iter[i])
        it == kept[Len(iter)]
    IN  table_serialize_from_iter(
            [i \in 1..Len(it) |-> [key |-> it[i].key, value |-> it[i].value]],
            [i \in 1..Len(it) |-> hash_value(it[i].key)],
            lf)

\* serialize_from_iter: the entries and the hashes of their keys, both in
\* iterator order, go to the table engine.
serialize_from_iter(iter, lf) ==
    table_serialize_from_iter(
        [i \in 1..Len(iter) |-> [key |-> iter[i].key, value |-> iter[i].value]],
        [i \in 1..Len(iter) |-> hash_value(iter[i].key)],
        lf)

\* Faulty variant: a failure is replaced by the default resolver.
serialize_from_iter_in_unwrap_or_default(iter, lf, s0) ==
    LET r == table_serialize_from_iter_in(
                 [i \in 1..Len(iter) |-> [key |-> iter[i].key, value |-> iter[i].value]],
                 [i \in 1..Len(iter) |-> hash_value(iter[i].key)],
                 lf, s0)
    IN  [ser |-> r.ser,
         result |-> IF r.result.ok THEN r.result
                    ELSE Ok([capacity |-> 0, plan |-> <<>>])]

\* serialize_from_iter with its serializer: the table's Result, mapped into
\* HashMapResolver when it is Ok and passed on when it is Err.
serialize_from_iter_in(iter, lf, s0) ==
    LET r == table_serialize_from_iter_in(
                 [i \in 1..Len(iter) |-> [key |-> iter[i].key, value |-> iter[i].value]],
                 [i \in 1..Len(iter) |-> hash_value(iter[i].key)],
                 lf, s0)
    IN  [ser |-> r.ser,
         result |-> IF r.result.ok THEN Ok(r.result.val) ELSE Err(r.result.err)]

resolve_from_len(n, lf, res) == table_resolve_from_len(n, lf, res)

----------------------------------------------------------------------------
(* Iteration: RawIter of the table engine and the five iterators over it. *)

\* raw_iter(): a cursor at bucket 0 with `len` items to go.
raw_iter(t) == [pos |-> 0, remaining |-> t.len]

\* RawIter::next: the next occupied bucket at or after pos, in ascending order.
raw_next(t, raw) ==
    LET occ == {b \in raw.pos..(t.capacity - 1) : t.ctrl[b]}
    IN  IF raw.remaining = 0 \/ occ = {}
          THEN [some |-> FALSE, raw |-> raw]
        ELSE LET b == CHOOSE x \in occ : \A y \in occ : x <= y
             IN  [some |-> TRUE, slot |-> b,
                  raw |-> [pos |-> b + 1, remaining |-> raw.remaining - 1]]

raw_len(raw) == raw.remaining

iter(t)       == [kind |-> "iter",       raw |-> raw_iter(t)]
iter_mut(t)   == [kind |-> "iter_mut",   raw |-> raw_iter(t)]
keys(t)       == [kind |-> "keys",       raw |-> raw_iter(t)]
values(t)     == [kind |-> "values",     raw |-> raw_iter(t)]
values_mut(t) == [kind |-> "values_mut", raw |-> raw_iter(t)]

\* Each next() returns the advanced iterator and the item, if any.  An item
\* names the slot its references point into.
\* Mutant of Iter::next: the raw cursor is advanced twice per item.
Iter_next_skips(t, it) ==
    LET e == raw_next(t, raw_next(t, it.raw).raw)
    IN  [it   |-> [it EXCEPT !.raw = e.raw],
         item |-> IF ~e.some THEN None
                  ELSE Some([slot |-> e.slot, key |-> t.slots[e.slot].key,
                             value |-> t.slots[e.slot].value])]

Iter_next(t, it) ==
    LET e == raw_next(t, it.raw)
    IN  [it   |-> [it EXCEPT !.raw = e.raw],
         item |-> IF ~e.some THEN None
                  ELSE Some([slot |-> e.slot, key |-> t.slots[e.slot].key,
                             value |-> t.slots[e.slot].value])]

\* Mutant of IterMut::next: the key is handed out for mutation.
IterMut_next_key_ref(t, it) ==
    LET e == raw_next(t, it.raw)
    IN  [it   |-> [it EXCEPT !.raw = e.raw],
         item |-> IF ~e.some THEN None
                  ELSE Some([slot |-> e.slot, key |-> t.slots[e.slot].key,
                             ref |-> [slot |-> e.slot, field |-> "key"]])]

IterMut_next(t, it) ==
    LET e == raw_next(t, it.raw)
    IN  [it   |-> [it EXCEPT !.raw = e.raw],
         item |-> IF ~e.some THEN None
                  ELSE Some([slot |-> e.slot, key |-> t.slots[e.slot].key,
                             ref |-> [slot |-> e.slot, field |-> "value"]])]

Keys_next(t, it) ==
    LET e == raw_next(t, it.raw)
    IN  [it   |-> [it EXCEPT !.raw = e.raw],
         item |-> IF ~e.some THEN None
                  ELSE Some([slot |-> e.slot, key |-> t.slots[e.slot].key])]

\* Mutant of Values::next: a copy of the raw cursor is advanced, not the
\* iterator's own.
Values_next_on_copy(t, it) ==
    LET e == raw_next(t, it.raw)
    IN  [it   |-> it,
         item |-> IF ~e.some THEN None
                  ELSE Some([slot |-> e.slot, value |-> t.slots[e.slot].value])]

Values_next(t, it) ==
    LET e == raw_next(t, it.raw)
    IN  [it   |-> [it EXCEPT !.raw = e.raw],
         item |-> IF ~e.some THEN None
                  ELSE Some([slot |-> e.slot, value |-> t.slots[e.slot].value])]

ValuesMut_next(t, it) ==
    LET e == raw_next(t, it.raw)
    IN  [it   |-> [it EXCEPT !.raw = e.raw],
         item |-> IF ~e.some THEN None
                  ELSE Some([slot |-> e.slot,
                             ref |-> [slot |-> e.slot, field |-> "value"]])]

\* ExactSizeIterator::len of each of the five.
iter_len(it) == raw_len(it.raw)

next(t, it) ==
    CASE it.kind = "iter"       -> Iter_next(t, it)
      [] it.kind = "iter_mut"   -> IterMut_next(t, it)
      [] it.kind = "keys"       -> Keys_next(t, it)
      [] it.kind = "values"     -> Values_next(t, it)
      [] it.kind = "values_mut" -> ValuesMut_next(t, it)

----------------------------------------------------------------------------
(* PartialEq for ArchivedHashMap. *)

\* self.iter().all(|(key, value)| other.get(key).map_or(false, |v| *value == *v)),
\* from the position `it` of the iteration over a; all() stops at the first
\* entry that fails.
RECURSIVE Iter_all(_, _, _)
Iter_all(a, it, b) ==
    LET r == Iter_next(a, it)
    IN  IF ~r.item.some THEN TRUE
        ELSE LET v == get(b, r.item.val.key)
             IN  IF v.some /\ r.item.val.value = v.val
                   THEN Iter_all(a, r.it, b)
                 ELSE FALSE

\* Faulty variant: the lengths are not compared.
eq_no_len(a, b) == Iter_all(a, iter(a), b)

eq(a, b) ==
    IF len(a) # len(b) THEN FALSE
    ELSE Iter_all(a, iter(a), b)

----------------------------------------------------------------------------
(* The arena cache of the shared mode (util/alloc/mod.rs, not(feature = "std")). *)

Threads == 1..MaxThreads
ArenaIds == 1..(MaxCalls + 1)
Null == 0

\* An arena that was never allocated, and a newly allocated one.
\* `capacity` is the memory the arena retains, `used` what the call that has
\* it took from it.
Unborn == [state |-> "unborn", scratch |-> 0, uses |-> 0, frees |-> 0,
           capacity |-> 0, used |-> 0]
Arena_new == [state |-> "live", scratch |-> 0, uses |-> 1, frees |-> 0,
              capacity |-> 0, used |-> 0]

\* drop(Arena): the memory is given back.
Arena_drop(a) == [a EXCEPT !.state = "freed", !.frees = IF @ < 2 THEN @ + 1 ELSE @]

\* A thread outside with_arena, and clear_arena not running.
NoCall == [pc |-> "idle", ptr |-> Null, arena |-> Null, result |-> None,
           swap |-> "none", overlapped |-> FALSE]
NoClear == [pc |-> "idle", ptr |-> Null, n |-> 0]

NoArenaUse ==
    /\ GLOBAL_ARENA = Null
    /\ arenas = [a \in ArenaIds |-> Unborn]
    /\ call = [t \in Threads |-> NoCall]
    /\ clear = NoClear
    /\ started = 0
    /\ cas_order = <<>>

InFlight(t) == call[t].pc # "idle"

\* The arena a call has in hand: the raw pointer it swapped out, then the
\* Arena made from it or allocated, until it is installed or dropped.
Held(t) ==
    IF call[t].pc = "acquire" THEN call[t].ptr
    ELSE IF call[t].pc \in {"f", "serialize", "shrink", "cas", "drop"} THEN call[t].arena
    ELSE Null

\* The value thread t serializes, and the bytes of a value.
Value(t) == t
to_bytes(v) == <<v>>

\* with_arena, line 63: the slot is swapped for null.  A call that begins
\* while others are in flight overlaps each of them.
\* Faulty variant: the slot is read, not swapped.
Swap_load(t) ==
    /\ call[t].pc = "idle"
    /\ started < MaxCalls
    /\ call' = [u \in Threads |->
                   IF u = t
                     THEN [NoCall EXCEPT !.pc = "acquire", !.ptr = GLOBAL_ARENA,
                              !.overlapped = \E v \in Threads \ {t} : InFlight(v)]
                   ELSE IF InFlight(u) THEN [call[u] EXCEPT !.overlapped = TRUE]
                   ELSE call[u]]
    /\ started' = started + 1
    /\ UNCHANGED <<GLOBAL_ARENA, arenas, clear, cas_order>>

Swap(t) ==
    /\ call[t].pc = "idle"
    /\ started < MaxCalls
    /\ GLOBAL_ARENA' = Null
    /\ call' = [u \in Threads |->
                   IF u = t
                     THEN [NoCall EXCEPT !.pc = "acquire", !.ptr = GLOBAL_ARENA,
                              !.overlapped = \E v \in Threads \ {t} : InFlight(v)]
                   ELSE IF InFlight(u) THEN [call[u] EXCEPT !.overlapped = TRUE]
                   ELSE call[u]]
    /\ started' = started + 1
    /\ UNCHANGED <<arenas, clear, cas_order>>

\* Lines 65-69: Arena::from_raw of a non-null pointer, Arena::new() otherwise.
Acquire(t) ==
    /\ call[t].pc = "acquire"
    /\ IF call[t].ptr # Null
         THEN /\ call' = [call EXCEPT ![t].pc = "f", ![t].arena = call[t].ptr]
              /\ arenas' = [arenas EXCEPT ![call[t].ptr].uses = @ + 1]
       ELSE LET unborn == {a \in ArenaIds : arenas[a].state = "unborn"}
                new == CHOOSE a \in unborn : \A b \in unborn : a <= b
            IN  /\ call' = [call EXCEPT ![t].pc = "f", ![t].arena = new]
                /\ arenas' = [arenas EXCEPT ![new] = Arena_new]
    /\ UNCHANGED <<GLOBAL_ARENA, clear, started, cas_order>>

\* Line 71, f of to_bytes_in: the serializer takes its scratch space from the
\* arena and works in it.
\* Faulty variant: the scratch space is read as the last user left it.
ScratchWrite_stale(t) ==
    /\ call[t].pc = "f"
    /\ call' = [call EXCEPT ![t].pc = "serialize"]
    /\ UNCHANGED <<GLOBAL_ARENA, arenas, clear, started, cas_order>>

ScratchWrite(t) ==
    /\ call[t].pc = "f"
    /\ arenas' = [arenas EXCEPT ![call[t].arena].scratch = Value(t)]
    /\ call' = [call EXCEPT ![t].pc = "serialize"]
    /\ UNCHANGED <<GLOBAL_ARENA, clear, started, cas_order>>

\* f of to_bytes_in, its end: the bytes come out of the scratch space into the
\* writer, which is the result.
SerializeInto(t) ==
    /\ call[t].pc = "serialize"
    /\ call' = [call EXCEPT ![t].pc = "shrink",
                            ![t].result = Some(Ok(to_bytes(arenas[call[t].arena].scratch)))]
    /\ UNCHANGED <<GLOBAL_ARENA, arenas, clear, started, cas_order>>

\* Lines 72-74: arena.shrink() and arena.into_raw().
Shrink(t) ==
    /\ call[t].pc = "shrink"
    /\ call' = [call EXCEPT ![t].pc = "cas"]
    /\ UNCHANGED <<GLOBAL_ARENA, arenas, clear, started, cas_order>>

\* Line 76: compare_exchange(null, raw).  Ok ends the call.
\* Faulty variant: the call waits for the slot to be empty.
CompareExchange_spin(t) ==
    /\ call[t].pc = "cas"
    /\ GLOBAL_ARENA = Null
    /\ GLOBAL_ARENA' = call[t].arena
    /\ call' = [call EXCEPT ![t].pc = "idle", ![t].swap = "ok"]
    /\ cas_order' = Append(cas_order, t)
    /\ UNCHANGED <<arenas, clear, started>>

\* Faulty variant: the slot is stored into, whatever it holds.
CompareExchange_store(t) ==
    /\ call[t].pc = "cas"
    /\ GLOBAL_ARENA' = call[t].arena
    /\ call' = [call EXCEPT ![t].pc = "idle", ![t].swap = "ok"]
    /\ cas_order' = Append(cas_order, t)
    /\ UNCHANGED <<arenas, clear, started>>

CompareExchange(t) ==
    /\ call[t].pc = "cas"
    /\ IF GLOBAL_ARENA = Null
         THEN /\ GLOBAL_ARENA' = call[t].arena
              /\ call' = [call EXCEPT ![t].pc = "idle", ![t].swap = "ok"]
       ELSE /\ GLOBAL_ARENA' = GLOBAL_ARENA
            /\ call' = [call EXCEPT ![t].pc = "drop", ![t].swap = "err"]
    /\ cas_order' = Append(cas_order, t)
    /\ UNCHANGED <<arenas, clear, started>>

\* Lines 82-88: on Err the call's own arena is dropped.
\* Faulty variant: the arena is forgotten, not dropped.
Drop_forget(t) ==
    /\ call[t].pc = "drop"
    /\ call' = [call EXCEPT ![t].pc = "idle"]
    /\ UNCHANGED <<GLOBAL_ARENA, arenas, clear, started, cas_order>>

Drop(t) ==
    /\ call[t].pc = "drop"
    /\ arenas' = [arenas EXCEPT ![call[t].arena] = Arena_drop(@)]
    /\ call' = [call EXCEPT ![t].pc = "idle"]
    /\ UNCHANGED <<GLOBAL_ARENA, clear, started, cas_order>>

\* clear_arena, line 95: the slot is swapped for null.
\* Faulty variant: the slot is read, not swapped.
ClearSwap_load ==
    /\ clear.pc = "idle"
    /\ clear.n < MaxClears
    /\ clear' = [pc |-> "drop", ptr |-> GLOBAL_ARENA, n |-> clear.n + 1]
    /\ UNCHANGED <<GLOBAL_ARENA, arenas, call, started, cas_order>>

ClearSwap ==
    /\ clear.pc = "idle"
    /\ clear.n < MaxClears
    /\ clear' = [pc |-> "drop", ptr |-> GLOBAL_ARENA, n |-> clear.n + 1]
    /\ GLOBAL_ARENA' = Null
    /\ UNCHANGED <<arenas, call, started, cas_order>>

\* Lines 97-101: a non-null pointer is made an Arena again and dropped.
ClearDrop ==
    /\ clear.pc = "drop"
    /\ arenas' = IF clear.ptr # Null
                   THEN [arenas EXCEPT ![clear.ptr] = Arena_drop(@)]
                 ELSE arenas
    /\ clear' = [clear EXCEPT !.pc = "idle"]
    /\ UNCHANGED <<GLOBAL_ARENA, call, started, cas_order>>

\* The steps of a call once it has begun; nothing of the maps is touched.
Step(t) ==
    /\ \/ Acquire(t)
       \/ ScratchWrite(t)
       \/ SerializeInto(t)
       \/ Shrink(t)
       \/ CompareExchange(t)
       \/ Drop(t)
    /\ UNCHANGED <<mapvars, other, ser, stdvars, derivevars>>

----------------------------------------------------------------------------
(* The arena cache of the per-thread mode (util/alloc/mod.rs, feature = "std"). *)
(* One thread and its THREAD_ARENA cell; f may call with_arena and           *)
(* clear_arena itself.                                                       *)

Caps == 0..MaxCap

NoThreadArenaUse ==
    /\ THREAD_ARENA = Null
    /\ stack = <<>>
    /\ observed = [op |-> "none"]

\* Arena::shrink: the retained capacity is cut to what the last user took;
\* it is what shrink returns.
Arena_shrink(a) == [a EXCEPT !.capacity = a.used, !.used = 0]

\* Line 29: thread_arena.take().unwrap_or_default(); then f begins.
WithArenaEnter ==
    /\ started < MaxCalls
    /\ THREAD_ARENA' = Null
    /\ IF THREAD_ARENA # Null
         THEN /\ stack' = Append(stack, [arena |-> THREAD_ARENA, ptr |-> THREAD_ARENA])
              /\ arenas' = [arenas EXCEPT ![THREAD_ARENA].uses = @ + 1]
       ELSE LET unborn == {a \in ArenaIds : arenas[a].state = "unborn"}
                new == CHOOSE a \in unborn : \A b \in unborn : a <= b
            IN  /\ stack' = Append(stack, [arena |-> new, ptr |-> Null])
                /\ arenas' = [arenas EXCEPT ![new] = Arena_new]
    /\ started' = started + 1
    /\ observed' = [op |-> "enter", depth |-> Len(stack) + 1, took |-> THREAD_ARENA]
    /\ UNCHANGED <<GLOBAL_ARENA, call, clear, cas_order>>

\* Line 31, f at work: the innermost call takes c from its arena, which grows
\* to hold it.
FUse(c) ==
    /\ stack # <<>>
    /\ LET a == stack[Len(stack)].arena
       IN  arenas' = [arenas EXCEPT ![a].used = c, ![a].capacity = Max(@, c)]
    /\ observed' = [op |-> "use"]
    /\ UNCHANGED <<GLOBAL_ARENA, call, clear, started, cas_order, THREAD_ARENA, stack>>

\* Lines 32-41 of the innermost call: shrink, take what the cell holds now,
\* keep the one of larger capacity, put it in the cell; the other is dropped.
\* Faulty variant: on a tie the arena of the cell is kept.
WithArenaReturn_keeps_other_on_tie ==
    /\ stack # <<>>
    /\ LET own == stack[Len(stack)].arena
           shrunk == Arena_shrink(arenas[own])
           cap == shrunk.capacity
           cached == THREAD_ARENA
       IN  /\ observed' = [op |-> "return", own |-> own, capacity |-> cap,
                            cached |-> cached,
                            cached_capacity |-> IF cached # Null
                                                  THEN arenas[cached].capacity ELSE 0]
           /\ IF cached # Null
                THEN IF arenas[cached].capacity >= cap
                       THEN /\ arenas' = [arenas EXCEPT ![own] = Arena_drop(shrunk)]
                            /\ THREAD_ARENA' = cached
                     ELSE /\ arenas' = [arenas EXCEPT ![own] = shrunk,
                                                      ![cached] = Arena_drop(@)]
                          /\ THREAD_ARENA' = own
              ELSE /\ arenas' = [arenas EXCEPT ![own] = shrunk]
                   /\ THREAD_ARENA' = own
    /\ stack' = SubSeq(stack, 1, Len(stack) - 1)
    /\ UNCHANGED <<GLOBAL_ARENA, call, clear, started, cas_order>>

WithArenaReturn ==
    /\ stack # <<>>
    /\ LET own == stack[Len(stack)].arena
           shrunk == Arena_shrink(arenas[own])
           cap == shrunk.capacity
           cached == THREAD_ARENA
       IN  /\ observed' = [op |-> "return", own |-> own, capacity |-> cap,
                            cached |-> cached,
                            cached_capacity |-> IF cached # Null
                                                  THEN arenas[cached].capacity ELSE 0]
           /\ IF cached # Null
                THEN IF arenas[cached].capacity > cap
                       THEN /\ arenas' = [arenas EXCEPT ![own] = Arena_drop(shrunk)]
                            /\ THREAD_ARENA' = cached
                     ELSE /\ arenas' = [arenas EXCEPT ![own] = shrunk,
                                                      ![cached] = Arena_drop(@)]
                          /\ THREAD_ARENA' = own
              ELSE /\ arenas' = [arenas EXCEPT ![own] = shrunk]
                   /\ THREAD_ARENA' = own
    /\ stack' = SubSeq(stack, 1, Len(stack) - 1)
    /\ UNCHANGED <<GLOBAL_ARENA, call, clear, started, cas_order>>

\* Lines 45-48, clear_arena: THREAD_ARENA.take(), and what it held is dropped.
ThreadClearArena ==
    /\ clear.n < MaxClears
    /\ clear' = [clear EXCEPT !.ptr = THREAD_ARENA, !.n = @ + 1]
    /\ THREAD_ARENA' = Null
    /\ arenas' = IF THREAD_ARENA # Null
                   THEN [arenas EXCEPT ![THREAD_ARENA] = Arena_drop(@)]
                 ELSE arenas
    /\ observed' = [op |-> "clear", took |-> THREAD_ARENA]
    /\ UNCHANGED <<GLOBAL_ARENA, call, started, cas_order, stack>>

----------------------------------------------------------------------------
(* Attributes::parse (rkyv_derive/src/attributes.rs). *)

Attributes_default ==
    [archive_as |-> None, archived |-> None, resolver |-> None, attrs |-> <<>>,
     compares |-> None, archive_bounds |-> None, serialize_bounds |-> None,
     deserialize_bounds |-> None, check_bytes |-> None, crate_path |-> None]

\* The arguments that set an Option field, by name.
SingleValued ==
    {"check_bytes", "compare", "archive_bounds", "serialize_bounds",
     "deserialize_bounds", "archived", "resolver", "as", "crate"}

\* The arguments that extend `attrs`.
Accumulating == {"derive", "attr"}

\* The field of Attributes an argument sets.
Field(name) ==
    CASE name = "as" -> "archive_as"
      [] name = "compare" -> "compares"
      [] name = "crate" -> "crate_path"
      [] OTHER -> name

\* The shapes the tokens after an argument's path can have:
\*   "valued": the shape the argument's branch parses (`= value`, or a
\*             parenthesized list);
\*   "bare":   nothing after the path;
\*   "bad":    tokens the branch's parser rejects (the `?` returns);
\*   "other":  after `crate`, tokens that are neither `= ...`, nor the end,
\*             nor a comma.
Forms(name) ==
    CASE name = "check_bytes" -> {"valued", "bare"}
      [] name = "crate" -> {"valued", "bare", "bad", "other"}
      [] name = "unrecognized" -> {"bare"}
      [] OTHER -> {"valued", "bad"}

\* The number of metas one derive(...), attr(...), archive_attr(...),
\* rkyv_attr(...) or rkyv_derive(...) list holds.
MetaCounts == {0, 1, 2}

\* A nested meta of an archive/rkyv attribute: its path, the shape of what
\* follows, the value parsed from it (named by the item's ordinal) and, for
\* derive and attr, the number of metas in its list.
Metas == [path : SingleValued \cup Accumulating \cup {"unrecognized"},
          form : {"valued", "bare", "bad", "other"},
          value : 1..MaxItems,
          count : MetaCounts]

\* The errors of syn's own parsers, and the messages of this file (without
\* their backquotes and quotes).
SyntaxError == "syn: parse error"
AlreadySpecified(name) == name \o " already specified"
ExpectedCrate == "expected crate or crate = ..."
Unrecognized == "unrecognized archive argument"
CannotCheckBytes ==
    "cannot generate a CheckBytes impl because as = .. does not generate an archived type"

\* Faulty variant of try_set_attribute: a set attribute is overwritten.
try_set_attribute_overwrite(attribute, value, name) ==
    [attribute |-> Some(value), out |-> Ok("unit")]

\* try_set_attribute: the attribute after the call and the call's result.
try_set_attribute(attribute, value, name) ==
    IF ~attribute.some
      THEN [attribute |-> Some(value), out |-> Ok("unit")]
    ELSE [attribute |-> attribute, out |-> Err(AlreadySpecified(name))]

\* The metas a list of n metas written in item `value` appends to attrs;
\* derive(...) and rkyv_derive(...) wrap each in derive(#meta).
MetaList(value, n, wrap) ==
    [k \in 1..n |-> [item |-> value, meta |-> k, derive |-> wrap]]

\* Attributes::parse_meta: self after the call and the call's result.
parse_meta(self, meta) ==
    LET Set(name) ==
            LET r == try_set_attribute(self[Field(name)], meta.value, name)
            IN  [self |-> [self EXCEPT ![Field(name)] = r.attribute],
                 out |-> r.out]
        Fail(e) == [self |-> self, out |-> Err(e)]
    IN  CASE meta.path = "check_bytes" -> Set("check_bytes")
          [] meta.path \in {"compare", "archive_bounds", "serialize_bounds",
                            "deserialize_bounds", "archived", "resolver", "as"} ->
                IF meta.form = "valued" THEN Set(meta.path)
                ELSE Fail(SyntaxError)
          [] meta.path = "crate" ->
                IF meta.form \in {"valued", "bad"}
                  THEN IF meta.form = "valued" THEN Set("crate")
                       ELSE Fail(SyntaxError)
                ELSE IF meta.form = "bare" THEN Set("crate")
                ELSE Fail(ExpectedCrate)
          [] meta.path \in Accumulating ->
                IF meta.form = "valued"
                  THEN [self |-> [self EXCEPT !.attrs =
                                     @ \o MetaList(meta.value, meta.count,
                                                   meta.path = "derive")],
                        out |-> Ok("unit")]
                ELSE Fail(SyntaxError)
          [] OTHER -> Fail(Unrecognized)

\* Nothing gone through yet.  `seen` is the history of the call of parse:
\* the items (nested metas and attribute lists) and attributes gone through,
\* the metas appended, per single-valued argument the first item whose
\* value was parsed and the attribute it stood in, and the last nested meta.
NoSeen == [items |-> 0, attr |-> 0, metas |-> 0,
           first |-> [n \in SingleValued |-> None],
           last |-> [path |-> "none"]]

NoParse ==
    /\ result = Attributes_default
    /\ parse_pc = "attrs"
    /\ parse_ret = [op |-> "none"]
    /\ seen = NoSeen

\* The attributes of a declaration: inner or outer, under one of the paths
\* parse tells apart or another one, and for the three list attributes
\* whether the arguments parse as a list of metas and how many it holds.
AttrPaths == {"archive", "rkyv", "archive_attr", "rkyv_attr", "rkyv_derive", "doc"}
Attrs == [style : {"Outer", "Inner"}, path : AttrPaths,
          form : {"valued", "bad"}, count : MetaCounts]

\* The value of a nested meta was parsed: its branch got as far as
\* try_set_attribute.
Parsed(meta) == meta.form \in {"valued", "bare"}

\* One turn of the loop of parse over input.attrs, up to the call of
\* parse_nested_meta for an archive/rkyv attribute.
ParseAttr(attr) ==
    /\ parse_pc = "attrs"
    /\ seen.attr < MaxItems
    /\ IF attr.style # "Outer" \/ attr.path = "doc"
         THEN /\ attr.form = "valued" /\ attr.count = 0
              /\ seen' = [seen EXCEPT !.attr = @ + 1]
              /\ UNCHANGED <<result, parse_pc, parse_ret>>
       ELSE IF attr.path \in {"archive", "rkyv"}
         THEN /\ attr.form = "valued" /\ attr.count = 0
              /\ parse_pc' = "nested"
              /\ seen' = [seen EXCEPT !.attr = @ + 1]
              /\ UNCHANGED <<result, parse_ret>>
       ELSE /\ seen.items < MaxItems
            /\ attr.form = "bad" => attr.count = 0
            /\ IF attr.form = "valued"
                 THEN /\ result' = [result EXCEPT !.attrs =
                                       @ \o MetaList(seen.items + 1, attr.count,
                                                     attr.path = "rkyv_derive")]
                      /\ seen' = [seen EXCEPT !.attr = @ + 1, !.items = @ + 1,
                                              !.metas = @ + attr.count]
                      /\ UNCHANGED <<parse_pc, parse_ret>>
               ELSE /\ parse_ret' = [op |-> "parse", out |-> Err(SyntaxError)]
                    /\ parse_pc' = "done"
                    /\ seen' = [seen EXCEPT !.attr = @ + 1, !.items = @ + 1]
                    /\ UNCHANGED result

\* parse_nested_meta hands the next nested meta to parse_meta; an Err ends
\* parse (the `?` of line 165).
NestedMeta(meta) ==
    /\ parse_pc = "nested"
    /\ seen.items < MaxItems
    /\ meta.value = seen.items + 1
    /\ meta.form \in Forms(meta.path)
    /\ meta.count # 0 => meta.path \in Accumulating /\ meta.form = "valued"
    /\ LET r == parse_meta(result, meta)
           single == meta.path \in SingleValued
       IN  /\ result' = r.self
           /\ parse_pc' = IF r.out.ok THEN "nested" ELSE "done"
           /\ parse_ret' = IF r.out.ok THEN parse_ret
                           ELSE [op |-> "parse", out |-> r.out]
           /\ seen' = [seen EXCEPT
                  !.items = @ + 1,
                  !.metas = @ + meta.count,
                  !.first = IF single /\ Parsed(meta) /\ ~@[meta.path].some
                              THEN [@ EXCEPT ![meta.path] =
                                       Some([item |-> meta.value, attr |-> seen.attr])]
                            ELSE @,
                  !.last = [path |-> meta.path, form |-> meta.form,
                            item |-> meta.value, attr |-> seen.attr,
                            out |-> r.out]]

\* parse_nested_meta comes to the end of the attribute's arguments, or to
\* tokens it rejects.
EndNested(ok) ==
    /\ parse_pc = "nested"
    /\ IF ok
         THEN /\ parse_pc' = "attrs"
              /\ UNCHANGED parse_ret
       ELSE /\ parse_pc' = "done"
            /\ parse_ret' = [op |-> "parse", out |-> Err(SyntaxError)]
    /\ UNCHANGED <<result, seen>>

\* After the loop: as and check_bytes exclude each other.
EndOfAttrs ==
    /\ parse_pc = "attrs"
    /\ parse_pc' = "done"
    /\ parse_ret' = [op |-> "parse",
                     out |-> IF result.archive_as.some /\ result.check_bytes.some
                               THEN Err(CannotCheckBytes)
                             ELSE Ok(result)]
    /\ UNCHANGED <<result, seen>>

----------------------------------------------------------------------------
(* State machine. *)

NoResolver == [capacity |-> 0, plan |-> <<>>]
NoMap == [capacity |-> 0, len |-> 0, ctrl |-> <<>>, slots |-> <<>>]
NoCursor == [live |-> FALSE]
NoRet == [op |-> "none"]
NoOther == [built |-> FALSE]
\* A serializer that never fails.
NoSer == [written |-> <<>>, room |-> MaxLen, fail_at |-> 0, attempts |-> <<>>]

InitMap ==
    /\ pc = "start"
    /\ input \in Inputs
    /\ load_factor \in LoadFactors
    /\ resolver = NoResolver
    /\ map = NoMap
    /\ cursor = NoCursor
    /\ ret = NoRet

Init ==
    /\ InitMap
    /\ other = NoOther
    /\ ser = NoSer
    /\ NoArenaUse
    /\ NoThreadArenaUse
    /\ NoParse

SerializeFromIter ==
    /\ pc = "start"
    /\ resolver' = serialize_from_iter(input, load_factor)
    /\ pc' = "serialized"
    /\ ret' = [op |-> "serialize_from_iter"]
    /\ UNCHANGED <<input, load_factor, map, cursor>>

ResolveFromLen ==
    /\ pc = "serialized"
    /\ map' = resolve_from_len(Len(input), load_factor, resolver)
    /\ pc' = "built"
    /\ ret' = [op |-> "resolve_from_len"]
    /\ UNCHANGED <<input, load_factor, resolver, cursor>>

\* serialize_from_iter against a serializer that may fail.  On Err there is
\* no resolver to go on with.
SerializeFromIterIn ==
    /\ pc = "start"
    /\ LET r == serialize_from_iter_in(input, load_factor, ser)
       IN  /\ ser' = r.ser
           /\ resolver' = IF r.result.ok THEN r.result.val ELSE resolver
           /\ pc' = IF r.result.ok THEN "serialized" ELSE "failed"
           /\ ret' = [op |-> "serialize_from_iter", out |-> r.result]
    /\ UNCHANGED <<input, load_factor, map, cursor>>

\* A call that borrows the map ends the life of the iterator borrowed before.
Get(k) ==
    /\ pc = "built"
    /\ ret' = [op |-> "get", key |-> k, out |-> get(map, k)]
    /\ cursor' = NoCursor
    /\ UNCHANGED <<pc, input, load_factor, resolver, map>>

\* map[k].  A panic unwinds the caller: nothing more is called on the map.
IndexCall(k) ==
    /\ pc = "built"
    /\ LET r == index(map, k)
       IN  /\ ret' = [op |-> "index", key |-> k, out |-> r]
           /\ pc' = IF r.panic THEN "panicked" ELSE pc
    /\ cursor' = NoCursor
    /\ UNCHANGED <<input, load_factor, resolver, map>>

ContainsKey(k) ==
    /\ pc = "built"
    /\ ret' = [op |-> "contains_key", key |-> k, out |-> contains_key(map, k)]
    /\ cursor' = NoCursor
    /\ UNCHANGED <<pc, input, load_factor, resolver, map>>

GetKeyValueWith(k, c) ==
    /\ pc = "built"
    /\ ret' = [op |-> "get_key_value_with", key |-> k, cmp |-> c,
               out |-> get_key_value_with(map, k, c),
               probes |-> table_get_with(map, hash_value(k), Closure(c, k)).probes]
    /\ cursor' = NoCursor
    /\ UNCHANGED <<pc, input, load_factor, resolver, map>>

\* get_mut, and the caller's write of v through the returned Pin<&mut V>.
GetMut(k, v) ==
    /\ pc = "built"
    /\ LET r == get_mut(map, k)
       IN  /\ map' = IF r.some THEN store(map, r.val, v) ELSE map
           /\ ret' = [op |-> "get_mut", key |-> k, out |-> r]
    /\ cursor' = NoCursor
    /\ UNCHANGED <<pc, input, load_factor, resolver>>

\* get_mut_with under a caller's comparator; the caller replaces the value it
\* finds by the next one of Vals.
GetMutWith(k, c) ==
    /\ pc = "built"
    /\ LET r == get_mut_with(map, k, c)
       IN  /\ map' = IF r.some
                       THEN store(map, r.val, (load(map, r.val) % MaxVal) + 1)
                     ELSE map
           /\ ret' = [op |-> "get_mut_with", key |-> k, cmp |-> c, out |-> r]
    /\ cursor' = NoCursor
    /\ UNCHANGED <<pc, input, load_factor, resolver>>

\* A new iteration starts from the beginning, whatever the iterator before it
\* did.  `yielded` is what this iteration has yielded so far (the slots), and
\* `prev` what the iteration before it yielded, when that one ran to its end.
Start(it) ==
    /\ pc = "built"
    /\ cursor' = [live |-> TRUE, it |-> it, yielded |-> <<>>,
                  prev |-> IF cursor.live /\ iter_len(cursor.it) = 0
                             THEN Some(cursor.yielded) ELSE None]
    /\ ret' = [op |-> it.kind, len |-> iter_len(it)]
    /\ UNCHANGED <<pc, input, load_factor, resolver, map>>

IterCall      == Start(iter(map))
IterMutCall   == Start(iter_mut(map))
KeysCall      == Start(keys(map))
ValuesCall    == Start(values(map))
ValuesMutCall == Start(values_mut(map))

\* next() on the live iterator; through a mutable item the caller writes v.
IterNext(v) ==
    /\ pc = "built"
    /\ cursor.live
    /\ LET r == next(map, cursor.it)
       IN  /\ cursor' = [cursor EXCEPT
                            !.it = r.it,
                            !.yielded = IF r.item.some
                                          THEN Append(@, r.item.val.slot) ELSE @]
           /\ map' = IF r.item.some /\ "ref" \in DOMAIN r.item.val
                       THEN store(map, r.item.val.ref, v) ELSE map
           /\ ret' = [op |-> "next", out |-> r.item, len |-> iter_len(r.it)]
    /\ UNCHANGED <<pc, input, load_factor, resolver>>

\* is_empty(), len() and capacity() on the built map.
Sizes ==
    /\ pc = "built"
    /\ ret' = [op |-> "sizes", is_empty |-> is_empty(map), len |-> len(map),
               capacity |-> capacity(map)]
    /\ cursor' = NoCursor
    /\ UNCHANGED <<pc, input, load_factor, resolver, map>>

\* The second map: the archive of another iterator, built the same way.
OtherInputs == {in \in Inputs : \A i \in 1..Len(in) : in[i].value = 1}
OtherLoadFactor == <<1, 2>>

BuildOther(in) ==
    /\ pc = "built"
    /\ ~other.built
    /\ other' = [built |-> TRUE, input |-> in,
                 map |-> resolve_from_len(Len(in), OtherLoadFactor,
                             serialize_from_iter(in, OtherLoadFactor))]
    /\ ret' = [op |-> "build_other"]
    /\ UNCHANGED <<pc, input, load_factor, resolver, map, cursor>>

Sides == {"map", "other"}
Operand(side) == IF side = "map" THEN map ELSE other.map
OperandInput(side) == IF side = "map" THEN input ELSE other.input

\* lhs == rhs, each side one of the two maps.
EqCall(lhs, rhs) ==
    /\ pc = "built"
    /\ "other" \in {lhs, rhs} => other.built
    /\ ret' = [op |-> "eq", lhs |-> lhs, rhs |-> rhs,
               out |-> eq(Operand(lhs), Operand(rhs))]
    /\ cursor' = NoCursor
    /\ UNCHANGED <<pc, input, load_factor, resolver, map, other>>

Build ==
    \/ SerializeFromIter
    \/ ResolveFromLen

Lookup ==
    \/ \E k \in QueryKeys : Get(k)
    \/ \E k \in QueryKeys, c \in Comparators : GetKeyValueWith(k, c)

Mutate ==
    \/ \E k \in QueryKeys, v \in Vals : GetMut(k, v)
    \/ \E k \in QueryKeys : GetMutWith(k, "same_hash")

Iterate ==
    \/ IterCall
    \/ IterMutCall
    \/ KeysCall
    \/ ValuesCall
    \/ ValuesMutCall
    \/ \E v \in Vals : IterNext(v)

\* Construction followed by lookups.
NextLookup == (Build \/ Lookup) /\ UNCHANGED <<other, ser, arenavars, stdvars, derivevars>>
Spec == Init /\ [][NextLookup]_vars

\* Construction followed by get, indexing and contains_key.
Indexing ==
    \/ \E k \in QueryKeys : Get(k)
    \/ \E k \in QueryKeys : IndexCall(k)
    \/ \E k \in QueryKeys : ContainsKey(k)
NextIndex == (Build \/ Indexing) /\ UNCHANGED <<other, ser, arenavars, stdvars, derivevars>>
SpecIndex == Init /\ [][NextIndex]_vars

\* Construction followed by lookups, in-place mutation and iteration.  The
\* mutations write every value of Vals into every occupied slot, so the pairs
\* start from one value.
InitAccess ==
    /\ Init
    /\ \A i \in 1..Len(input) : input[i].value = 1

Access ==
    \/ Build
    \/ \E k \in QueryKeys : GetKeyValueWith(k, "eq")
    \/ Mutate
    \/ Iterate
Next == Access /\ UNCHANGED <<other, ser, arenavars, stdvars, derivevars>>
SpecAccess == InitAccess /\ [][Next]_vars

\* Construction of two maps followed by comparisons.
NextEq ==
    \/ Build /\ UNCHANGED <<other, ser, arenavars, stdvars, derivevars>>
    \/ (\E in \in OtherInputs : BuildOther(in)) /\ UNCHANGED <<ser, arenavars, stdvars, derivevars>>
    \/ (\E lhs \in Sides, rhs \in Sides : EqCall(lhs, rhs)) /\ UNCHANGED <<ser, arenavars, stdvars, derivevars>>
SpecEq == Init /\ [][NextEq]_vars

\* Construction against a serializer that may fail, followed by lookups.
\* The writer starts empty or holding one earlier chunk.
Serializers ==
    [written : {<<>>, <<Unused>>}, room : 0..MaxLen, fail_at : 0..MaxLen,
     attempts : {<<>>}]
InitIn ==
    /\ InitMap
    /\ \A i \in 1..Len(input) : input[i].value = 1
    /\ other = NoOther
    /\ ser \in Serializers
    /\ NoArenaUse
    /\ NoThreadArenaUse
    /\ NoParse
NextIn ==
    \/ SerializeFromIterIn /\ UNCHANGED <<other, arenavars, stdvars, derivevars>>
    \/ ResolveFromLen /\ UNCHANGED <<other, ser, arenavars, stdvars, derivevars>>
    \/ (\E k \in QueryKeys : Get(k)) /\ UNCHANGED <<other, ser, arenavars, stdvars, derivevars>>
SpecIn == InitIn /\ [][NextIn]_vars

\* Threads calling to_bytes_in, and so with_arena, and clear_arena, in the
\* shared mode.  The slot starts empty or holding the arena an earlier call
\* left in it.
InitArena ==
    /\ pc = "start"
    /\ input = <<>>
    /\ load_factor = <<1, 1>>
    /\ resolver = NoResolver
    /\ map = NoMap
    /\ cursor = NoCursor
    /\ ret = NoRet
    /\ other = NoOther
    /\ ser = NoSer
    /\ GLOBAL_ARENA \in {Null, 1}
    /\ arenas = [a \in ArenaIds |->
                    IF a = GLOBAL_ARENA THEN [Arena_new EXCEPT !.uses = 0] ELSE Unborn]
    /\ call = [t \in Threads |-> NoCall]
    /\ clear = NoClear
    /\ started = 0
    /\ cas_order = <<>>
    /\ NoThreadArenaUse
    /\ NoParse

NextArena ==
    \/ (\E t \in Threads : Swap(t)) /\ UNCHANGED <<mapvars, other, ser, stdvars, derivevars>>
    \/ \E t \in Threads : Step(t)
    \/ ClearSwap /\ UNCHANGED <<mapvars, other, ser, stdvars, derivevars>>
    \/ ClearDrop /\ UNCHANGED <<mapvars, other, ser, stdvars, derivevars>>
SpecArena == InitArena /\ [][NextArena]_vars

\* Each thread calling with_arena once.  A thread that has begun a call goes
\* on running it: the scheduler leaves no runnable thread behind for ever, and
\* f, here the serialization, ends.
NextArenaOnce ==
    \/ (\E t \in Threads : call[t].swap = "none" /\ Swap(t))
           /\ UNCHANGED <<mapvars, other, ser, stdvars, derivevars>>
    \/ \E t \in Threads : Step(t)
    \/ ClearSwap /\ UNCHANGED <<mapvars, other, ser, stdvars, derivevars>>
    \/ ClearDrop /\ UNCHANGED <<mapvars, other, ser, stdvars, derivevars>>
SpecArenaFair ==
    /\ InitArena
    /\ [][NextArenaOnce]_vars
    /\ \A t \in Threads : WF_vars(Step(t))

\* One thread in the per-thread mode: with_arena calls, nested in f to any
\* depth the calls allow, f at work, and clear_arena inside and outside f.
\* The cell starts empty or holding the arena an earlier call left in it.
InitThread ==
    /\ pc = "start"
    /\ input = <<>>
    /\ load_factor = <<1, 1>>
    /\ resolver = NoResolver
    /\ map = NoMap
    /\ cursor = NoCursor
    /\ ret = NoRet
    /\ other = NoOther
    /\ ser = NoSer
    /\ GLOBAL_ARENA = Null
    /\ call = [t \in Threads |-> NoCall]
    /\ clear = NoClear
    /\ started = 0
    /\ cas_order = <<>>
    /\ THREAD_ARENA \in {Null, 1}
    /\ \E c \in Caps :
           arenas = [a \in ArenaIds |->
                        IF a = THREAD_ARENA
                          THEN [Arena_new EXCEPT !.uses = 0, !.capacity = c]
                        ELSE Unborn]
    /\ stack = <<>>
    /\ observed = [op |-> "none"]
    /\ NoParse
\* One call of Attributes::parse on a declaration's attributes.
InitParse ==
    /\ pc = "start"
    /\ input = <<>>
    /\ load_factor = <<1, 1>>
    /\ resolver = NoResolver
    /\ map = NoMap
    /\ cursor = NoCursor
    /\ ret = NoRet
    /\ other = NoOther
    /\ ser = NoSer
    /\ NoArenaUse
    /\ NoThreadArenaUse
    /\ NoParse
ParseStep ==
    \/ \E attr \in Attrs : ParseAttr(attr)
    \/ \E meta \in Metas : NestedMeta(meta)
    \/ \E ok \in BOOLEAN : EndNested(ok)
    \/ EndOfAttrs
NextParse == ParseStep /\ UNCHANGED <<mapvars, other, ser, arenavars, stdvars>>
SpecParse == InitParse /\ [][NextParse]_vars

ThreadStep ==
    \/ WithArenaEnter
    \/ \E c \in Caps : FUse(c)
    \/ WithArenaReturn
    \/ ThreadClearArena
NextThread == ThreadStep /\ UNCHANGED <<mapvars, other, ser, derivevars>>
SpecThread == InitThread /\ [][NextThread]_vars

\* Construction followed by the size queries and iteration.
NextSizes == (Build \/ Sizes \/ Iterate) /\ UNCHANGED <<other, ser, arenavars, stdvars, derivevars>>
SpecSizes == InitAccess /\ [][NextSizes]_vars

----------------------------------------------------------------------------
(* Properties of construction and lookup. *)

Built == pc = "built"

\* The table as construction wrote it, before any in-place mutation.
AsBuilt == resolve_from_len(Len(input), load_factor, resolver)

Buckets(t) == 0..(capacity(t) - 1)
Occupied(t) == {b \in Buckets(t) : t.ctrl[b]}

DistinctKeys(in) ==
    \A i, j \in 1..Len(in) : in[i].key = in[j].key => i = j

Inserted(k) == \E i \in 1..Len(input) : input[i].key = k

\* The value paired with k in the input, or a miss.
Paired(k) ==
    IF Inserted(k)
      THEN Some(input[CHOOSE i \in 1..Len(input) : input[i].key = k].value)
    ELSE None

\* The bucket where the probe sequence of the key stored in b starts.
Home(t, b) == probe(hash_value(t.slots[b].key), capacity(t), 0)

\* C1 (round trip): when the keys of the input are pairwise distinct, on the
\* table as built get(k) returns the value paired with k for every inserted
\* key and a miss for every other key, and so does every get call made.
C1_RoundTrip ==
    (Built /\ DistinctKeys(input)) =>
        /\ \A k \in QueryKeys : get(map, k) = Paired(k)
        /\ ret.op = "get" => ret.out = Paired(ret.key)

\* A hit on a key that a collision displaced from its home bucket.
C1_Witness ==
    /\ Built /\ DistinctKeys(input) /\ Len(input) >= 2
    /\ ret.op = "get" /\ ret.out.some
    /\ \E b \in Occupied(map) :
           /\ map.slots[b].key = ret.key
           /\ Home(map, b) # b

\* C2 (capacity invariant): capacity * num >= length * den, and capacity >= 1
\* whenever length >= 1.
C2_CapacityInvariant ==
    Built =>
        /\ capacity(map) * load_factor[1] >= Len(input) * load_factor[2]
        /\ Len(input) >= 1 => capacity(map) >= 1

\* A table of two entries under the load factor 7/8.
C2_Witness ==
    /\ Built /\ Len(input) >= 2 /\ load_factor = <<7, 8>>
    /\ capacity(map) > Len(input)

\* C3 (capacity minimality): no capacity smaller than the chosen one satisfies
\* c * num >= length * den; an empty input gets capacity 0.
C3_CapacityMinimal ==
    Built =>
        \A c \in 0..(capacity(map) - 1) :
            c * load_factor[1] < Len(input) * load_factor[2]

\* A capacity that is neither the length nor length * den: rounding decides.
C3_Witness ==
    /\ Built /\ Len(input) >= 2 /\ load_factor[1] > 1
    /\ capacity(map) > Len(input)
    /\ capacity(map) < Len(input) * load_factor[2]

\* Slot b is what a lookup probing for the hash of the key stored in b
\* reaches: every candidate before b in that probe sequence is occupied.
Reaches(t, b) ==
    \E i \in Buckets(t) :
        /\ probe(hash_value(t.slots[b].key), capacity(t), i) = b
        /\ \A j \in 0..(i - 1) :
               t.ctrl[probe(hash_value(t.slots[b].key), capacity(t), j)]

\* C4 (placement invariant): every occupied slot lies on the lookup probe
\* sequence of its own key's hash with no empty slot before it, every pair of
\* the input sits in such a slot, and there are as many occupied slots as
\* pairs.
C4_Placement ==
    Built =>
        /\ \A b \in Occupied(map) : Reaches(map, b)
        /\ Cardinality(Occupied(map)) = Len(input)
        /\ \A i \in 1..Len(input) :
               \E b \in Occupied(map) :
                   /\ map.slots[b] = [key |-> input[i].key, value |-> input[i].value]
                   /\ resolver.plan[i].bucket = b

\* An entry displaced from its home bucket by a collision.
C4_Witness ==
    /\ Built
    /\ \E b \in Occupied(map) : Home(map, b) # b

----------------------------------------------------------------------------
(* Properties of in-place mutation and iteration. *)

\* C5 (mutation preserves lookup): whatever values have been written in
\* place, every lookup, by every key and under every comparator, on the
\* shared and on the mutable path, hits or misses as it does on the table as
\* built and resolves to the same slot.
C5_MutationPreservesLookup ==
    Built =>
        LET built == AsBuilt
        IN  \A k \in QueryKeys, c \in Comparators :
                LET now  == get_key_value_with(map, k, c)
                    was  == get_key_value_with(built, k, c)
                    nowm == get_key_value_mut_with(map, k, c)
                IN  /\ now.some = was.some
                    /\ nowm.some = was.some
                    /\ now.some => now.slot = was.slot /\ nowm.slot = was.slot

\* A lookup hits a key whose value was mutated in place.
C5_Witness ==
    /\ Built
    /\ ret.op = "get_key_value_with" /\ ret.out.some
    /\ ret.out.value # AsBuilt.slots[ret.out.slot].value

\* C6 (frame of the mutable-access path): capacity, length, every control tag,
\* the key of every occupied slot and every unused slot stay as built; only
\* values of occupied slots may differ.
C6_Frame ==
    Built =>
        LET built == AsBuilt
        IN  /\ capacity(map) = capacity(built)
            /\ len(map) = len(built)
            /\ map.ctrl = built.ctrl
            /\ \A b \in Buckets(built) :
                   /\ map.slots[b].key = built.slots[b].key
                   /\ ~built.ctrl[b] => map.slots[b] = built.slots[b]

\* A mutable iterator has yielded a value that was then mutated in place.
C6_Witness ==
    /\ Built /\ cursor.live
    /\ ret.op = "next" /\ ret.out.some
    /\ "ref" \in DOMAIN ret.out.val
    /\ map.slots[ret.out.val.slot].value # AsBuilt.slots[ret.out.val.slot].value

\* C7 (iteration completeness): an iteration yields occupied slots only, no
\* slot twice, and has len() items to go after each step; when next() reports
\* the end it has yielded exactly `length` entries, every occupied slot once.
C7_IterationComplete ==
    (Built /\ cursor.live) =>
        /\ \A i \in 1..Len(cursor.yielded) : cursor.yielded[i] \in Occupied(map)
        /\ \A i, j \in 1..Len(cursor.yielded) :
               cursor.yielded[i] = cursor.yielded[j] => i = j
        /\ Len(cursor.yielded) + iter_len(cursor.it) = len(map)
        /\ (ret.op = "next" /\ ~ret.out.some) =>
               /\ Len(cursor.yielded) = len(map)
               /\ {cursor.yielded[i] : i \in 1..Len(cursor.yielded)} = Occupied(map)

\* An iteration over a table with an empty slot has run to its end.
C7_Witness ==
    /\ Built /\ cursor.live
    /\ ret.op = "next" /\ ~ret.out.some
    /\ Len(cursor.yielded) >= 2
    /\ capacity(map) > len(map)

\* The occupied slots in ascending bucket order.
Ascending(t) ==
    CHOOSE q \in [1..Cardinality(Occupied(t)) -> Occupied(t)] :
        \A i, j \in 1..Cardinality(Occupied(t)) : i < j => q[i] < q[j]

IsPrefix(p, q) ==
    /\ Len(p) <= Len(q)
    /\ \A i \in 1..Len(p) : p[i] = q[i]

\* C8 (iteration order and restartability): every iteration, of each of the
\* five kinds, yields slots in strictly ascending bucket order, from the
\* lowest occupied slot on and skipping none; an iteration started after
\* another ran to its end yields the same sequence.
C8_IterationOrder ==
    (Built /\ cursor.live) =>
        /\ \A i, j \in 1..Len(cursor.yielded) :
               i < j => cursor.yielded[i] < cursor.yielded[j]
        /\ IsPrefix(cursor.yielded, Ascending(map))
        /\ cursor.prev.some =>
               /\ IsPrefix(cursor.yielded, cursor.prev.val)
               /\ iter_len(cursor.it) = 0 => cursor.yielded = cursor.prev.val

\* A second iteration has run to its end after a first one did.
C8_Witness ==
    /\ Built /\ cursor.live
    /\ cursor.prev.some
    /\ Len(cursor.prev.val) >= 2
    /\ ret.op = "next" /\ ~ret.out.some
    /\ cursor.yielded = cursor.prev.val

----------------------------------------------------------------------------
(* Properties of the probe. *)

\* C9 (lookup termination and miss): a lookup examines at most `capacity`
\* candidates, all but the last occupied and failing the comparator; a hit is
\* the first occupied candidate satisfying the comparator, a miss ends at an
\* empty candidate or after `capacity` occupied candidates, none satisfying.
C9_LookupTerminates ==
    (Built /\ ret.op = "get_key_value_with") =>
        LET cap    == capacity(map)
            at(i)  == probe(hash_value(ret.key), cap, i)
            sat(b) == map.ctrl[b] /\ Cmp(ret.cmp, ret.key, map.slots[b].key)
            n      == ret.probes
        IN  /\ n <= cap
            /\ \A j \in 0..(n - 2) : map.ctrl[at(j)] /\ ~sat(at(j))
            /\ ret.out.some =>
                   /\ n >= 1
                   /\ ret.out.slot = at(n - 1)
                   /\ sat(at(n - 1))
                   /\ ret.out.key = map.slots[at(n - 1)].key
                   /\ ret.out.value = map.slots[at(n - 1)].value
            /\ ~ret.out.some =>
                   \/ n >= 1 /\ ~map.ctrl[at(n - 1)]
                   \/ n = cap /\ \A j \in 0..(cap - 1) : map.ctrl[at(j)] /\ ~sat(at(j))

\* A lookup of an absent key on a table without an empty slot misses after
\* `capacity` probes.
C9_Witness ==
    /\ Built
    /\ len(map) = capacity(map) /\ len(map) >= 2
    /\ ret.op = "get_key_value_with" /\ ret.cmp = "eq"
    /\ ~Inserted(ret.key)
    /\ ~ret.out.some
    /\ ret.probes = capacity(map)

\* The first occurrence of key k in the input.
FirstIndex(k) ==
    CHOOSE i \in 1..Len(input) :
        /\ input[i].key = k
        /\ \A j \in 1..(i - 1) : input[j].key # k

\* The first slot holding key k on the probe sequence of k's hash.
FirstMatch(t, k) ==
    LET i == CHOOSE i \in Buckets(t) :
                 /\ t.ctrl[probe(hash_value(k), capacity(t), i)]
                 /\ t.slots[probe(hash_value(k), capacity(t), i)].key = k
                 /\ \A j \in 0..(i - 1) :
                        ~(/\ t.ctrl[probe(hash_value(k), capacity(t), j)]
                          /\ t.slots[probe(hash_value(k), capacity(t), j)].key = k)
    IN  probe(hash_value(k), capacity(t), i)

\* C10 (duplicate-key determinism): whether or not keys repeat, the length
\* and the number of occupied slots count every pair, every pair has a slot
\* of its own, and every lookup of an inserted key returns one entry: the
\* first match on the key's probe sequence, which is the slot of the key's
\* first occurrence in the input.
C10_DuplicateKeys ==
    Built =>
        /\ len(map) = Len(input)
        /\ Cardinality(Occupied(map)) = Len(input)
        /\ \A i, j \in 1..Len(input) :
               resolver.plan[i].bucket = resolver.plan[j].bucket => i = j
        /\ \A i \in 1..Len(input) :
               map.slots[resolver.plan[i].bucket] =
                   [key |-> input[i].key, value |-> input[i].value]
        /\ \A k \in QueryKeys :
               Inserted(k) =>
                   LET r == get_key_value_with(map, k, "eq")
                   IN  /\ r.some
                       /\ r.slot = FirstMatch(map, k)
                       /\ r.slot = resolver.plan[FirstIndex(k)].bucket
                       /\ r.value = input[FirstIndex(k)].value
                       /\ (ret.op = "get_key_value_with" /\ ret.cmp = "eq"
                           /\ ret.key = k) => ret.out = r
                       /\ (ret.op = "get" /\ ret.key = k) => ret.out = Some(r.value)

\* A lookup of a key the input holds twice, with two different values.
C10_Witness ==
    /\ Built
    /\ ret.op = "get_key_value_with" /\ ret.cmp = "eq" /\ ret.out.some
    /\ \E i, j \in 1..Len(input) :
           /\ i < j
           /\ input[i].key = ret.key /\ input[j].key = ret.key
           /\ input[i].value # input[j].value

----------------------------------------------------------------------------
(* The empty table. *)

\* C11: a table built from zero pairs has length 0, is_empty() = TRUE and the
\* capacity the capacity rule gives for length 0, which is 0; every iterator
\* over it reports length 0 and its first next() yields no entry.
C11_EmptyTable ==
    (Built /\ Len(input) = 0) =>
        /\ len(map) = 0
        /\ is_empty(map)
        /\ capacity(map) = capacity_from_len(0, load_factor)
        /\ capacity(map) = 0
        /\ ret.op = "sizes" =>
               ret = [op |-> "sizes", is_empty |-> TRUE, len |-> 0, capacity |-> 0]
        /\ \A it \in {iter(map), iter_mut(map), keys(map), values(map), values_mut(map)} :
               /\ iter_len(it) = 0
               /\ ~next(map, it).item.some
        /\ cursor.live => cursor.yielded = <<>> /\ iter_len(cursor.it) = 0
        /\ ret.op = "next" => ~ret.out.some
        /\ ret.op \in {"iter", "iter_mut", "keys", "values", "values_mut"} => ret.len = 0

\* next() called on an iterator over the table built from zero pairs.
C11_Witness ==
    /\ Built /\ Len(input) = 0
    /\ is_empty(map) /\ len(map) = 0
    /\ ret.op = "next" /\ cursor.live /\ ~ret.out.some

----------------------------------------------------------------------------
(* Map equality. *)

PairSet(in) == {in[i] : i \in 1..Len(in)}

\* C12: a == b holds exactly when the lengths are equal and every entry of a
\* has its key resolved by b.get to an equal value; for maps built from
\* inputs with distinct keys that is exactly when the two inputs hold the same
\* set of pairs, whatever the order of insertion and the load factor of each.
C12_MapEquality ==
    ret.op = "eq" =>
        LET a == Operand(ret.lhs)
            b == Operand(ret.rhs)
        IN  /\ ret.out =
                   (/\ len(a) = len(b)
                    /\ \A s \in Occupied(a) :
                           get(b, a.slots[s].key) = Some(a.slots[s].value))
            /\ (DistinctKeys(OperandInput(ret.lhs)) /\ DistinctKeys(OperandInput(ret.rhs))) =>
                   ret.out = (PairSet(OperandInput(ret.lhs)) = PairSet(OperandInput(ret.rhs)))

\* Two maps of two entries, inserted in different orders, compared equal.
C12_Witness ==
    /\ ret.op = "eq" /\ ret.lhs = "map" /\ ret.rhs = "other"
    /\ ret.out
    /\ Len(input) = 2
    /\ input # other.input
    /\ map # other.map

\* C13: every constructed map compares equal to itself.
C13_Reflexive ==
    (ret.op = "eq" /\ ret.lhs = ret.rhs) => ret.out

----------------------------------------------------------------------------
(* Failures during construction. *)

\* How many chunks the writer held before construction, how many construction
\* added, and how many writes the writer would accept when construction began.
Prior == IF ser.written # <<>> /\ ser.written[1] = Unused THEN 1 ELSE 0
Wrote == Len(ser.written) - Prior
RoomAtStart == ser.room + Wrote
Fails(i) == ser.fail_at = i \/ i > RoomAtStart
FirstFails == CHOOSE i \in 1..Len(input) : Fails(i) /\ \A j \in 1..(i - 1) : ~Fails(j)

\* C14: serialize_from_iter fails exactly when archiving some entry fails or
\* the writer rejects a write.  It then returns the error of the first entry
\* that fails, leaves no resolver, has started each entry up to that one once
\* and none after it, and the chunks written before the failure are still in
\* the writer, after what the writer held before.  Otherwise it returns the
\* resolver, every entry written once.
C14_ErrorPropagation ==
    pc # "start" =>
        /\ (pc = "failed") = (\E i \in 1..Len(input) : Fails(i))
        /\ pc = "failed" =>
               /\ ret = [op |-> "serialize_from_iter",
                         out |-> Err([kind |-> IF ser.fail_at = FirstFails
                                                THEN "serialize" ELSE "write",
                                      at |-> FirstFails])]
               /\ resolver = NoResolver
               /\ map = NoMap
               /\ Wrote = FirstFails - 1
               /\ \A i \in 1..Wrote :
                      ser.written[Prior + i] = [key |-> input[i].key, value |-> input[i].value]
               /\ ser.attempts = [i \in 1..FirstFails |-> i]
        /\ pc # "failed" =>
               /\ resolver = serialize_from_iter(input, load_factor)
               /\ ret.op = "serialize_from_iter" => ret.out = Ok(resolver)
               /\ Wrote = Len(input)
               /\ ser.attempts = [i \in 1..Len(input) |-> i]

\* A construction that failed at its second entry, the chunk of the first one
\* left in the writer.
C14_Witness ==
    /\ pc = "failed"
    /\ ~ret.out.ok
    /\ Wrote >= 1
    /\ resolver = NoResolver

----------------------------------------------------------------------------
(* The shared arena cache under concurrent callers. *)

\* The call of thread t has its Arena in hand, made or allocated.
HasArena(t) == call[t].pc \in {"f", "serialize", "shrink", "cas", "drop"}

\* C15: no arena is in the hands of two in-flight with_arena calls at once,
\* and a call whose swap found the slot empty runs on an arena allocated by
\* itself: live, never used by any other call, and not the cached one.
C15_Exclusive ==
    /\ \A t, u \in Threads :
           (t # u /\ Held(t) # Null /\ Held(u) # Null) => Held(t) # Held(u)
    /\ \A t \in Threads :
           (HasArena(t) /\ call[t].ptr = Null) =>
               /\ arenas[call[t].arena].state = "live"
               /\ arenas[call[t].arena].uses = 1
               /\ GLOBAL_ARENA # call[t].arena

\* Two calls in flight at once: one took the cached arena, the other found
\* the slot empty and allocated its own.
C15_Witness ==
    \E t, u \in Threads :
        /\ t # u
        /\ HasArena(t) /\ call[t].ptr # Null
        /\ HasArena(u) /\ call[u].ptr = Null
        /\ arenas[call[u].arena].uses = 1

\* The position of a call in with_arena, in program order.
Rank(p) ==
    CASE p = "acquire"   -> 1
      [] p = "f"         -> 2
      [] p = "serialize" -> 3
      [] p = "shrink"    -> 4
      [] p = "cas"       -> 5
      [] p = "drop"      -> 6
      [] p = "idle"      -> 7

\* The program's own part of a call record: `overlapped` is set by the begin
\* of another call.
Locals(c) == [c EXCEPT !.overlapped = FALSE]

\* C16: a call in flight always has its next step enabled, whatever the other
\* callers and the slot are doing; each of its steps takes it forward in
\* program order, none is repeated; and, its thread being scheduled, the call
\* ends.
C16_NeverBlocks ==
    /\ \A t \in Threads : [](InFlight(t) => ENABLED Step(t))
    /\ [][\A t \in Threads :
             (InFlight(t) /\ Locals(call'[t]) # Locals(call[t])) =>
                 Rank(call'[t].pc) > Rank(call[t].pc)]_vars
    /\ \A t \in Threads : InFlight(t) ~> ~InFlight(t)

\* A call about to compare_exchange while the slot holds the arena of a call
\* that overlapped it.
C16_Witness ==
    \E t \in Threads :
        /\ call[t].pc = "cas"
        /\ call[t].overlapped
        /\ GLOBAL_ARENA # Null
        /\ GLOBAL_ARENA # call[t].arena

\* The call of thread t has returned.
Returned(t) == call[t].pc = "idle" /\ call[t].swap # "none"

C18_ClearSafe ==
    /\ [](clear.pc = "drop" /\ clear.ptr # Null =>
              /\ \A t \in Threads : Held(t) # clear.ptr
              /\ GLOBAL_ARENA # clear.ptr
              /\ arenas[clear.ptr].state = "live")
    /\ [][/\ (clear.pc = "idle" /\ clear'.pc = "drop") =>
                 /\ clear'.ptr = GLOBAL_ARENA
                 /\ GLOBAL_ARENA' = Null
                 /\ arenas' = arenas
                 /\ call' = call
          /\ (clear.pc = "drop" /\ clear'.pc = "idle") =>
                 /\ GLOBAL_ARENA' = GLOBAL_ARENA
                 /\ call' = call
                 /\ \A a \in ArenaIds :
                        IF a = clear.ptr
                          THEN arenas'[a].state = "freed" /\ arenas'[a].frees = 1
                        ELSE arenas'[a] = arenas[a]]_vars

\* clear_arena has freed the cached arena while a with_arena call holds
\* another one.
C18_Witness ==
    /\ clear.pc = "idle" /\ clear.n >= 1
    /\ clear.ptr # Null
    /\ arenas[clear.ptr].state = "freed"
    /\ \E t \in Threads : Held(t) # Null /\ arenas[Held(t)].state = "live"

Allocated == {a \in ArenaIds : arenas[a].state # "unborn"}
Live == {a \in ArenaIds : arenas[a].state = "live"}
Holders(a) == {t \in Threads : Held(t) = a}
CallsInFlight == {t \in Threads : InFlight(t)}
ClearHolds(a) == clear.pc = "drop" /\ clear.ptr = a
BoolCount(b) == IF b THEN 1 ELSE 0

\* Freed is final: no arena is freed twice, and a freed one is neither in the
\* slot nor in any hand.
FreedIsFinal ==
    \A a \in Allocated :
        /\ arenas[a].frees <= 1
        /\ arenas[a].state = "freed" =>
               /\ arenas[a].frees = 1
               /\ GLOBAL_ARENA # a
               /\ Holders(a) = {}
               /\ ~ClearHolds(a)

\* C20 as stated: every allocated arena is in exactly one of three places,
\* the hands of exactly one in-flight with_arena call, the slot, or freed;
\* freed is final; the live arenas are at most the in-flight with_arena calls
\* plus one; with no with_arena call in flight at most one arena is live, the
\* cached one.
C20_ThreePlaces ==
    /\ \A a \in Allocated :
           Cardinality(Holders(a)) + BoolCount(GLOBAL_ARENA = a)
               + BoolCount(arenas[a].state = "freed") = 1
    /\ FreedIsFinal
    /\ Cardinality(Live) <= Cardinality(CallsInFlight) + 1
    /\ CallsInFlight = {} => Live \subseteq {GLOBAL_ARENA}

\* C20, with the place the statement leaves out: every allocated arena is in
\* exactly one of four places, the hands of exactly one in-flight with_arena
\* call, the hands of a clear_arena call between its swap and its drop, the
\* slot, or freed; freed is final; the live arenas are at most the in-flight
\* with_arena and clear_arena calls plus one; with no call of either kind in
\* flight at most one arena is live, the cached one.
C20_Ownership ==
    /\ \A a \in Allocated :
           Cardinality(Holders(a)) + BoolCount(ClearHolds(a))
               + BoolCount(GLOBAL_ARENA = a)
               + BoolCount(arenas[a].state = "freed") = 1
    /\ FreedIsFinal
    /\ Cardinality(Live) <=
           Cardinality(CallsInFlight) + BoolCount(clear.pc = "drop") + 1
    /\ (CallsInFlight = {} /\ clear.pc = "idle") => Live \subseteq {GLOBAL_ARENA}

\* One arena in the hands of a with_arena call, one in the hands of
\* clear_arena and one freed, all at once.
C20_Witness ==
    /\ \E t \in Threads : HasArena(t)
    /\ clear.pc = "drop" /\ clear.ptr # Null
    /\ \E a \in Allocated : arenas[a].state = "freed"

----------------------------------------------------------------------------
(* The per-thread arena cache with calls nested in f. *)

\* The arenas of the calls in progress are live, pairwise different and not
\* the one in the cell; a call that found the cell empty runs on an arena
\* allocated by itself, any other on the arena it took from the cell.
FramesApart ==
    /\ \A i, j \in 1..Len(stack) : stack[i].arena = stack[j].arena => i = j
    /\ \A i \in 1..Len(stack) :
           /\ arenas[stack[i].arena].state = "live"
           /\ stack[i].arena # THREAD_ARENA
           /\ IF stack[i].ptr = Null
                THEN arenas[stack[i].arena].uses = 1
              ELSE stack[i].arena = stack[i].ptr

\* What a return leaves: the cell holds the arena of larger retained capacity
\* among the call's own, shrunk, and the one the cell held, the call's own on
\* a tie or when the cell was empty; that arena is live, the other one freed.
ReturnKeepsLarger ==
    observed.op = "return" =>
        LET kept == IF observed.cached # Null
                       /\ observed.cached_capacity > observed.capacity
                      THEN observed.cached ELSE observed.own
            dropped == IF observed.cached = Null THEN Null
                       ELSE IF kept = observed.own THEN observed.cached
                       ELSE observed.own
        IN  /\ THREAD_ARENA # Null
            /\ THREAD_ARENA = kept
            /\ arenas[kept].state = "live"
            /\ arenas[kept].capacity = Max(observed.capacity, observed.cached_capacity)
            /\ dropped # Null =>
                   /\ arenas[dropped].state = "freed"
                   /\ arenas[dropped].frees = 1
                   /\ dropped # kept

\* C21 as stated: every call made inside f runs on an arena different from
\* those of the calls around it and allocated by itself; a return leaves the
\* cell non-empty, holding the arena of larger retained capacity, the outer
\* call's own on a tie, the other one dropped.
C21_NestedFresh ==
    /\ FramesApart
    /\ \A i \in 2..Len(stack) : stack[i].ptr = Null
    /\ ReturnKeepsLarger

\* C21: every call made inside f runs on an arena different from those of the
\* calls around it: one allocated by itself when the cell is empty, as it is
\* for the first call inside f, else the arena an earlier call inside the same
\* f left in the cell; a return leaves the cell non-empty, holding the arena
\* of larger retained capacity, the outer call's own on a tie, the other one
\* dropped.
C21_Nested ==
    /\ FramesApart
    /\ (observed.op = "enter" /\ observed.depth >= 2) =>
           /\ observed.took = stack[Len(stack)].ptr
           /\ \A i \in 1..(Len(stack) - 1) : stack[i].arena # stack[Len(stack)].arena
    /\ ReturnKeepsLarger

\* The outer call has returned after a call inside its f left an arena of the
\* same capacity in the cell: the outer call's own arena is kept, the other
\* one dropped.
C21_Witness ==
    /\ observed.op = "return"
    /\ stack = <<>>
    /\ started >= 2
    /\ observed.cached # Null
    /\ observed.cached_capacity = observed.capacity
    /\ THREAD_ARENA = observed.own
    /\ arenas[observed.cached].state = "freed"

\* The keys of the pairs the map was built from.
Present(k) == \E i \in 1..Len(input) : input[i].key = k

\* C22: indexing agrees with get: for a key get finds, map[key] returns the
\* value get returns; for a key get does not find, map[key] returns nothing
\* and panics; contains_key(key) is true exactly when get(key) returns a
\* value; and get finds exactly the keys the map was built from.
C22_IndexAgreesWithGet ==
    /\ pc \in {"built", "panicked"} =>
          \A k \in QueryKeys : get(map, k).some <=> Present(k)
    /\ ret.op = "index" =>
          LET g == get(map, ret.key)
          IN  /\ g.some => ~ret.out.panic /\ ret.out.val = g.val
              /\ ~g.some => ret.out.panic /\ pc = "panicked"
              /\ pc = "panicked" <=> ~Present(ret.key)
    /\ ret.op = "contains_key" => (ret.out <=> get(map, ret.key).some)
    /\ pc = "panicked" => ret.op = "index"

\* Indexing a non-empty map by an absent key has panicked.
C22_Witness ==
    /\ pc = "panicked"
    /\ ret.op = "index"
    /\ ret.out.panic
    /\ Len(input) > 0
    /\ ~Present(ret.key)

\* The last nested meta names a single-valued argument whose value an
\* earlier item already gave.
LaterOccurrence ==
    /\ seen.last.path \in SingleValued
    /\ seen.first[seen.last.path].some
    /\ seen.first[seen.last.path].val.item < seen.last.item

\* Every Option field holds the value of the first item that gave it.
FirstValueKept ==
    \A n \in SingleValued :
        result[Field(n)] = IF seen.first[n].some
                             THEN Some(seen.first[n].val.item)
                           ELSE None

\* derive and attr never count as repeats, and attrs holds every meta given.
Accumulates ==
    /\ Len(result.attrs) = seen.metas
    /\ seen.last.path \in Accumulating /\ Parsed(seen.last) => seen.last.out.ok
    /\ \A n \in SingleValued \cup Accumulating :
          parse_pc = "done" /\ parse_ret.out = Err(AlreadySpecified(n)) =>
              seen.last.path = n /\ n \in SingleValued

\* The first occurrence of a single-valued argument is accepted and stored.
FirstAccepted ==
    seen.last.path \in SingleValued /\ Parsed(seen.last) /\ ~LaterOccurrence =>
        /\ seen.last.out.ok
        /\ seen.first[seen.last.path] =
               Some([item |-> seen.last.item, attr |-> seen.last.attr])
        /\ result[Field(seen.last.path)] = Some(seen.last.item)

\* The statement as it stands: ANY later occurrence of a single-valued
\* argument makes parse return "<name> already specified".
C23_AnyRepeatAlreadySpecified ==
    /\ FirstValueKept
    /\ FirstAccepted
    /\ Accumulates
    /\ LaterOccurrence =>
          /\ parse_pc = "done"
          /\ parse_ret.out = Err(AlreadySpecified(seen.last.path))

\* C23: going through the outer archive/rkyv attributes in order, a
\* single-valued argument is accepted and stored the first time its value
\* parses; a later occurrence of it, in the same or a later attribute, ends
\* parse with an error and never overwrites the first value: with
\* "<name> already specified" when the later occurrence's value parses, with
\* the parser's own error when it does not; derive and attr accumulate.
C23_RepeatsRejected ==
    /\ FirstValueKept
    /\ FirstAccepted
    /\ Accumulates
    /\ LaterOccurrence =>
          /\ parse_pc = "done"
          /\ ~parse_ret.out.ok
          /\ parse_ret.out = seen.last.out
          /\ Parsed(seen.last) <=>
                parse_ret.out = Err(AlreadySpecified(seen.last.path))
          /\ ~Parsed(seen.last) =>
                parse_ret.out \in {Err(SyntaxError), Err(ExpectedCrate)}
    /\ parse_pc = "done" /\ parse_ret.out.ok => parse_ret.out.val = result

\* An argument given in one attribute and again, well-formed, in a later one:
\* parse has returned "<name> already specified" and the first value stands.
C23_Witness ==
    /\ parse_pc = "done"
    /\ LaterOccurrence
    /\ Parsed(seen.last)
    /\ seen.first[seen.last.path].val.attr < seen.last.attr
    /\ parse_ret.out = Err(AlreadySpecified(seen.last.path))
    /\ result[Field(seen.last.path)] = Some(seen.first[seen.last.path].val.item)

====
